---- MODULE Spec2Model ----
(***************************************************************************)
(* A model of the metrics module (src/metrics/__init__.py): the thread-    *)
(* local ambient context, event(), Timer, Context and MetricsContextApp.   *)
(*                                                                         *)
(* Python values are tagged records, dicts are functions whose DOMAIN is   *)
(* the set of keys present, objects are records whose DOMAIN is the set of *)
(* attributes present.  One action is one call of one function or method   *)
(* by one thread.                                                          *)
(***************************************************************************)
EXTENDS Integers, Sequences, FiniteSets, TLC

\* ---------------------------------------------------------------- bounds
\* the clock ticks at most MaxClock times
MaxClock == 2
\* a run makes at most MaxCalls calls of event(), __enter__ and __exit__
MaxCalls == 5

\* ------------------------------------------------------------ the universe
Threads == {"t1", "t2"}
Ctxs == {"c1", "c2"}
Timers == {"m1", "m2"}
None == "None"

\* ---------------------------------------------------------- Python values
Num(n) == [tag |-> "num", val |-> n]
Str(s) == [tag |-> "str", val |-> s]
\* a value json cannot serialize, such as object()
Obj == [tag |-> "object"]
\* a reference to the list self.events of Context c
List(c) == [tag |-> "list", ref |-> c]

\* a reference to the dict self.kw of Context c
Dict(c) == [tag |-> "dict", ref |-> c]
\* the value None
NoneVal == [tag |-> "none"]

EmptyDict == [k \in {} |-> Obj]
Put(d, k, v) == [x \in (DOMAIN d) \cup {k} |-> IF x = k THEN v ELSE d[x]]
Update(d, e) == [x \in (DOMAIN d) \cup (DOMAIN e) |-> IF x \in DOMAIN e THEN e[x] ELSE d[x]]
Without(d, k) == [x \in (DOMAIN d) \ {k} |-> d[x]]

\* ------------------------------------------------------------------ inputs
\* Context(**kw): the constructor arguments tried
CtxArgs == {EmptyDict, [a |-> Num(5)]}
\* event(name, **kw): the calls tried
EventNames == {"bar"}
EventArgs == {EmptyDict, [f |-> Num(9)], [start |-> Num(1)], [f |-> Obj, duration |-> Num(1)]}
\* c[k] = v and t[k] = v: the assignments tried on the dicts handed back
UserKeys == {"b"}
UserVals == {Num(6), Obj}
\* the keys Timer.__exit__ and Context.__exit__ set themselves
TimerKeys == {"name", "start", "duration"}
ContextKeys == {"events", "start", "duration"}
\* app(environ, start_response): the requests tried
Environs == {[REMOTE_ADDR |-> Str("remote_addr"), PATH_INFO |-> Str("path_info"),
              QUERY_STRING |-> Str("query_string")],
             [REMOTE_ADDR |-> Str("1.2.3.4"), PATH_INFO |-> Str("/x"), QUERY_STRING |-> Str("q=1")]}
\* what the wrapped handler returns
Responses == {NoneVal, Str("body")}

\* What the callers of one run do: the threads that make calls, the Context and
\* Timer objects they use, the arguments they give event(), the values they
\* assign, whether a scope body may raise, whether the clock advances during
\* the run, the Context objects MetricsContextApp creates and the requests it is
\* called with, whether a Timer's dict is assigned to after the Timer's scope,
\* the keys assigned to in the dicts of Contexts and of Timers, the keyword
\* arguments the Context objects after the first are constructed with, and how
\* many calls fewer than MaxCalls are made.  A behaviour is one run.
Runs == {
    \* one thread, two Context objects, nested, left and entered again
    [threads |-> {"t1"}, ctxs |-> Ctxs, timers |-> {}, args |-> {EmptyDict},
     vals |-> UserVals, raises |-> TRUE, ticks |-> FALSE, apps |-> {}, envs |-> {}, late |-> FALSE,
     ckeys |-> UserKeys, tkeys |-> UserKeys, others |-> CtxArgs, fewer |-> 1],
    \* one thread, one Context, a Timer and every kind of event
    [threads |-> {"t1"}, ctxs |-> {"c1"}, timers |-> {"m1"}, args |-> EventArgs,
     vals |-> {Num(6)}, raises |-> FALSE, ticks |-> FALSE, apps |-> {}, envs |-> {}, late |-> FALSE,
     ckeys |-> {}, tkeys |-> UserKeys, others |-> CtxArgs, fewer |-> 0],
    \* test_Context: one thread, one Context and a Timer, both dicts assigned to,
    \* and an event with a field
    [threads |-> {"t1"}, ctxs |-> {"c1"}, timers |-> {"m1"}, args |-> {[f |-> Num(9)]},
     vals |-> {Num(6)}, raises |-> FALSE, ticks |-> FALSE, apps |-> {}, envs |-> {}, late |-> FALSE,
     ckeys |-> UserKeys, tkeys |-> UserKeys, others |-> CtxArgs, fewer |-> 0],
    \* one thread, one Context and two Timers, one inside the other or not
    [threads |-> {"t1"}, ctxs |-> {"c1"}, timers |-> Timers, args |-> {EmptyDict},
     vals |-> {}, raises |-> TRUE, ticks |-> FALSE, apps |-> {}, envs |-> {}, late |-> FALSE,
     ckeys |-> UserKeys, tkeys |-> UserKeys, others |-> CtxArgs, fewer |-> 0],
    \* two threads sharing the Context objects
    [threads |-> Threads, ctxs |-> Ctxs, timers |-> {}, args |-> {EmptyDict},
     vals |-> {}, raises |-> FALSE, ticks |-> FALSE, apps |-> {}, envs |-> {}, late |-> FALSE,
     ckeys |-> UserKeys, tkeys |-> UserKeys, others |-> {EmptyDict}, fewer |-> 1],
    \* one thread, one Context and a Timer, while time passes
    [threads |-> {"t1"}, ctxs |-> {"c1"}, timers |-> {"m1"}, args |-> {EmptyDict},
     vals |-> {}, raises |-> FALSE, ticks |-> TRUE, apps |-> {}, envs |-> {}, late |-> FALSE,
     ckeys |-> UserKeys, tkeys |-> UserKeys, others |-> CtxArgs, fewer |-> 1],
    \* one thread handling requests through MetricsContextApp, with a Context of its own
    [threads |-> {"t1"}, ctxs |-> {"c1"}, timers |-> {}, args |-> {EmptyDict},
     vals |-> UserVals, raises |-> TRUE, ticks |-> FALSE, apps |-> {"c2"}, envs |-> Environs, late |-> FALSE,
     ckeys |-> UserKeys, tkeys |-> UserKeys, others |-> CtxArgs, fewer |-> 1],
    \* two threads handling requests through MetricsContextApp
    [threads |-> Threads, ctxs |-> {}, timers |-> {}, args |-> {EmptyDict},
     vals |-> {}, raises |-> FALSE, ticks |-> FALSE, apps |-> Ctxs,
     envs |-> {[REMOTE_ADDR |-> Str("1.2.3.4"), PATH_INFO |-> Str("/x"), QUERY_STRING |-> Str("q=1")]},
     late |-> FALSE, ckeys |-> UserKeys, tkeys |-> UserKeys, others |-> CtxArgs, fewer |-> 0],
    \* one thread, one Context and a Timer whose dict is assigned to after its scope
    [threads |-> {"t1"}, ctxs |-> {"c1"}, timers |-> {"m1"}, args |-> {EmptyDict},
     vals |-> {Num(6)}, raises |-> FALSE, ticks |-> FALSE, apps |-> {}, envs |-> {}, late |-> TRUE,
     ckeys |-> UserKeys, tkeys |-> UserKeys, others |-> CtxArgs, fewer |-> 0],
    \* one thread, one Context and a Timer whose dict is assigned to under the keys
    \* Timer.__exit__ sets
    [threads |-> {"t1"}, ctxs |-> {"c1"}, timers |-> {"m1"}, args |-> {EmptyDict},
     vals |-> {Num(6)}, raises |-> FALSE, ticks |-> FALSE, apps |-> {}, envs |-> {}, late |-> FALSE,
     ckeys |-> {}, tkeys |-> TimerKeys, others |-> CtxArgs, fewer |-> 0],
    \* one thread, one Context whose dict is assigned to under the keys
    \* Context.__exit__ sets
    [threads |-> {"t1"}, ctxs |-> {"c1"}, timers |-> {}, args |-> {EmptyDict},
     vals |-> UserVals, raises |-> FALSE, ticks |-> FALSE, apps |-> {}, envs |-> {}, late |-> FALSE,
     ckeys |-> ContextKeys, tkeys |-> {}, others |-> CtxArgs, fewer |-> 0],
    \* two threads sharing one Context, while time passes
    [threads |-> Threads, ctxs |-> {"c2"}, timers |-> {}, args |-> {EmptyDict},
     vals |-> {}, raises |-> FALSE, ticks |-> TRUE, apps |-> {}, envs |-> {}, late |-> FALSE,
     ckeys |-> UserKeys, tkeys |-> UserKeys, others |-> {[a |-> Num(5)]}, fewer |-> 2],
    \* two threads sharing one Timer, while time passes
    [threads |-> Threads, ctxs |-> {}, timers |-> {"m1"}, args |-> {EmptyDict},
     vals |-> {}, raises |-> FALSE, ticks |-> TRUE, apps |-> {}, envs |-> {}, late |-> FALSE,
     ckeys |-> UserKeys, tkeys |-> UserKeys, others |-> CtxArgs, fewer |-> 2] }

VARIABLES
    now,        \* the clock read by time()
    ctx,        \* the Context objects: attributes kw, events and, once entered, start
    tmr,        \* the Timer objects: attributes name, kw and, once entered, start
    context,    \* threading.local(): per thread, the attributes kw and events
    scopes,     \* per thread, the with-scopes entered and not yet left
    exc,        \* per thread, the exception propagating, or None
    log,        \* the calls made on the logger, in order
    wsgi,       \* per thread, the MetricsContextApp call in progress or last made
    run,        \* what the callers of this run do: one of Runs
    calls,      \* history: the number of calls of event(), __enter__ and __exit__ made
    by,         \* history: per Context, the thread that appended each of its events
    entered,    \* history: per Context and Timer, the threads that have called its __enter__
    alias,      \* per Context and event, the Timer whose dict kw the event record is, or None
    last,       \* history: the call the last step completed, or the line it ran
    frame       \* per thread, the call in progress

vars == <<now, ctx, tmr, context, scopes, exc, log, wsgi, run, calls, by, entered, alias, last, frame>>

time == now

\* ------------------------------------------------------------------ logging
LogCall(level, t, text, data) == [level |-> level, thread |-> t, text |-> text, data |-> data]

\* changed: the diagnostic goes out at debug level
NoContextAtDebug(t, kw) == LogCall("debug", t, "no context to record event", kw)
\* log.warn("%s: no context to record event: %r" % (thread name, kw))
NoContext(t, kw) == LogCall("warning", t, "no context to record event", kw)

\* ------------------------------------------------------------------ json
\* whether json.dumps accepts the value (a list: each of its event dicts)
Serializable(v) ==
    IF v.tag = "list"
    THEN \A i \in 1..Len(ctx[v.ref].events) :
            \A k \in DOMAIN ctx[v.ref].events[i] : ctx[v.ref].events[i][k].tag # "object"
    ELSE v.tag # "object"

JsonScalar(v) == IF v.tag = "num" THEN [tag |-> "number", val |-> v.val]
                                  ELSE [tag |-> "string", val |-> v.val]
JsonObject(d) == [k \in DOMAIN d |-> JsonScalar(d[k])]
JsonValue(v) ==
    IF v.tag = "list"
    THEN [tag |-> "array",
          items |-> [i \in 1..Len(ctx[v.ref].events) |-> JsonObject(ctx[v.ref].events[i])]]
    ELSE JsonScalar(v)

\* json.dumps(kw): raises TypeError unless CanDump(kw)
CanDump(kw) == \A k \in DOMAIN kw : Serializable(kw[k])
dumps(kw) == [k \in DOMAIN kw |-> JsonValue(kw[k])]

\* ------------------------------------------------------------------- frames
\* A thread runs a call one access at a time, and other threads and the clock
\* run between the accesses.  A step is one read or write of what other
\* threads can reach (the clock, a Context object, a Timer object, the log),
\* together with the statements next to it that touch the thread's own
\* attributes of context and the locals of the call only: no other thread can
\* tell when those ran.  So self.start = time() is two steps, the read of the
\* clock and the store, and time() - self.start two reads.  The frame of a call
\* in progress: the operation, the line the thread is to run next, self, the
\* values read so far (the clock, self.start, the duration computed, the name
\* and the keyword arguments of event()), and history: the Context installed on
\* the thread when the call began, the objects as they were then, the keyword
\* arguments given, the scope the call leaves, what json.dumps returned and
\* what the wrapped application returned.
NoScope == [kind |-> None, obj |-> None, seen |-> <<>>, at |-> 0, under |-> None]
\* the thread is in no call
Returned(t) == frame[t].line = None
Installed(t) == IF "kw" \in DOMAIN context[t] THEN context[t].kw ELSE None

\* --------------------------------------------------------------- with-scopes
\* a scope entered by thread t; history: the clock when it was entered and the
\* Context installed on the thread at that moment
Scope(t, kind, obj) ==
    [kind |-> kind, obj |-> obj, seen |-> <<>>, at |-> time,
     under |-> IF "kw" \in DOMAIN context[t] THEN context[t].kw ELSE None]
Remove(s, i) == [j \in 1..(Len(s) - 1) |-> IF j < i THEN s[j] ELSE s[j + 1]]
\* history: an event recorded by the thread is seen by each scope it has open
Saw(s, rec) == [j \in 1..Len(s) |-> [s[j] EXCEPT !.seen = Append(@, rec)]]
\* a normal exit may leave any open scope; an exception unwinds the innermost one
CanLeave(t, i, kind) ==
    /\ Returned(t)
    /\ i \in 1..Len(scopes[t])
    /\ scopes[t][i].kind = kind
    /\ exc[t] # None => i = Len(scopes[t])
\* changed: __exit__ returns a true value
ExitReturnsTrue == TRUE
\* __exit__ returns None: the with statement lets the exception go on
ExitSuppresses == FALSE
AfterExit(e) == IF ExitSuppresses THEN None ELSE e

\* ------------------------------------------------------------ constructors
Context__init__(kw) == [kw |-> kw, events |-> <<>>]
Timer__init__(name, kw) == [name |-> name, kw |-> kw]
\* the Timer objects of the runs explored
TimerArgs(m) == IF m = "m1" THEN Timer__init__("foo", [d |-> Num(7)]) ELSE Timer__init__("baz", EmptyDict)

\* history: no Context object looked at
NoObjects == [c \in Ctxs |-> Context__init__(EmptyDict)]
NoRecord == [level |-> None, thread |-> None, text |-> None, data |-> EmptyDict]
NoFrame == [op |-> None, line |-> None, self |-> None, active |-> None, before |-> NoObjects,
            clock |-> 0, start |-> 0, duration |-> 0, name |-> NoneVal, kw |-> EmptyDict,
            given |-> EmptyDict, scope |-> NoScope, pos |-> 0, text |-> EmptyDict, r |-> NoneVal]

\* history: the call a step makes or ends: the operation, the calling thread,
\* the object it is made on, what it raises, the Context installed on the thread
\* when it began, the keyword arguments given, for a Context scope left the
\* events recorded on the thread while it was open, the scope the call left, if
\* any, and its place among the scopes of the thread, the record it emitted,
\* the Context objects as they were when it began, and the clock it read
Did(op, t, obj, raised, kw, seen) ==
    [op |-> op, t |-> t, obj |-> obj, raised |-> raised,
     active |-> IF t \in Threads /\ "kw" \in DOMAIN context[t] THEN context[t].kw ELSE None,
     kw |-> kw, seen |-> seen, left |-> NoScope, pos |-> 0, emitted |-> NoRecord,
     before |-> NoObjects, clock |-> time]
\* history: a step of a call in progress, which does not end the call
Line(t, obj, line) == Did(line, t, obj, None, EmptyDict, <<>>)
\* history: the call with frame f ends: what it raises and the record it has
\* emitted
End(f, t, raised, emitted) ==
    [op |-> f.op, t |-> t, obj |-> f.self, raised |-> raised, active |-> f.active,
     kw |-> f.given, seen |-> f.scope.seen, left |-> f.scope, pos |-> f.pos, emitted |-> emitted,
     before |-> f.before, clock |-> f.clock]

\* no call of the wrapped application made yet
NoRequest == [state |-> "idle", environ |-> EmptyDict, ctx |-> None, result |-> NoneVal,
              returned |-> NoneVal, raised |-> None, nested |-> FALSE, emissions |-> 0]

\* changed: __call__ calls the wrapped application and returns nothing
ReturnsNone(r) == NoneVal
\* return self.app(environ, start_response)
Returns(r) == r

\* the with statement of __call__ is left: the wrapped application has returned
\* r, or has raised e; __exit__ raised what is given, or None.  History: result
\* is what the wrapped application returned, nested whether a Context scope was
\* open on the thread when __call__ was made, emissions the number of info
\* records the thread has logged since
App__return__(w, c, r, e, raised) ==
    IF w.state = "handling" /\ w.ctx = c
    THEN [w EXCEPT !.state = "idle", !.ctx = None,
                   !.result = IF e = None THEN r ELSE NoneVal,
                   !.returned = IF e = None /\ raised = None THEN Returns(r) ELSE NoneVal,
                   !.raised = IF raised # None THEN raised ELSE AfterExit(e)]
    ELSE w

Init ==
    /\ run \in Runs
    /\ now = 0
    /\ ctx \in [Ctxs -> {Context__init__(kw) : kw \in CtxArgs}]
    /\ \A c \in Ctxs \ run.ctxs : ctx[c] = Context__init__(EmptyDict)
    /\ \A c \in Ctxs \ {"c1"} : ctx[c].kw \in run.others
    /\ tmr = [m \in Timers |-> TimerArgs(m)]
    /\ context = [t \in Threads |-> EmptyDict]
    /\ scopes = [t \in Threads |-> <<>>]
    /\ exc = [t \in Threads |-> None]
    /\ log = <<>>
    /\ wsgi = [t \in Threads |-> NoRequest]
    /\ calls = 0
    /\ by = [c \in Ctxs |-> <<>>]
    /\ entered = [o \in Ctxs \cup Timers |-> {}]
    /\ alias = [c \in Ctxs |-> <<>>]
    /\ last = [op |-> "init", t |-> None, obj |-> None, raised |-> None, active |-> None,
               kw |-> EmptyDict, seen |-> <<>>, left |-> NoScope, pos |-> 0, emitted |-> NoRecord,
               before |-> NoObjects, clock |-> 0]
    /\ frame = [t \in Threads |-> NoFrame]

\* -------------------------------------------------------------------- event
\* changed: context is one plain object shared by the threads
CurrentEventsOfAnyThread(t) ==
    IF \E u \in Threads : "events" \in DOMAIN context[u]
    THEN context[CHOOSE u \in Threads : "events" \in DOMAIN context[u]].events
    ELSE None
\* getattr(context, 'events', None)
CurrentEvents(t) == IF "events" \in DOMAIN context[t] THEN context[t].events ELSE None

\* changed: start is set whether or not the caller gave one
StampedAlways(kw) == Put(kw, "start", Num(time))
\* if 'start' not in kw: kw['start'] = time()
Stamped(kw) == IF "start" \in DOMAIN kw THEN kw ELSE Put(kw, "start", Num(time))
\* kw['name'] = name: the dict event() appends
EventRecord(name, kw) == Put(kw, "name", name)

\* changed: the record is put at the head of the list
AppendedAtHead(events, rec) == <<rec>> \o events
\* events.append(kw)
Appended(events, rec) == Append(events, rec)

\* changed: the Timer hands event() its own dict
PassedItself(m) == m
\* event(**self.kw): the keyword arguments reach event() in a new dict, which
\* is no Timer's
Passed(m) == None
\* the Context objects once Timer m's dict has become d: an event record that is
\* that dict has become d with it
Shared(cs, m, d) ==
    [c \in Ctxs |-> [cs[c] EXCEPT !.events = [i \in 1..Len(@) |-> IF alias[c][i] = m THEN d ELSE @[i]]]]

\* one more call, within the bound of the run
Call == calls < MaxCalls - run.fewer /\ calls' = calls + 1 /\ UNCHANGED run

\* lines 82 and 83 in the call with frame f: kw['name'] = name;
\* events.append(kw), which ends the call.  History: m is the Timer whose dict
\* the record is, if any
Records(t, f, events, m) ==
    LET rec == EventRecord(f.name, f.kw) IN
    /\ ctx' = [ctx EXCEPT ![events].events = Appended(@, rec)]
    /\ by' = [by EXCEPT ![events] = Append(@, t)]
    /\ alias' = [alias EXCEPT ![events] = Append(@, m)]
    /\ scopes' = [scopes EXCEPT ![t] = Saw(@, rec)]
    /\ frame' = [frame EXCEPT ![t] = NoFrame]
    /\ last' = End(f, t, None, NoRecord)
    /\ UNCHANGED log

\* event(name, **kw) from line 75 on, in the call with frame f of thread t,
\* which holds name and kw; events is what line 75 found.  Without a context,
\* lines 76 to 78: log.warn, and the call ends.  With the start given, nothing
\* is read before events.append.  Else line 81 reads the clock, and line 82
\* is next.
event(t, f, events, m) ==
    IF events = None
    THEN /\ log' = Append(log, NoContext(t, f.kw))
         /\ frame' = [frame EXCEPT ![t] = NoFrame]
         /\ last' = End(f, t, None, NoRecord)
         /\ UNCHANGED <<ctx, by, alias, scopes>>
    ELSE IF "start" \in DOMAIN f.kw
         THEN Records(t, [f EXCEPT !.kw = Stamped(f.kw)], events, m)
         ELSE /\ frame' = [frame EXCEPT ![t] = [f EXCEPT !.line = "82", !.kw = Stamped(f.kw), !.clock = time]]
              /\ last' = Line(t, f.self, "81")
              /\ UNCHANGED <<ctx, by, alias, scopes, log>>

\* the call event(name, **kw), up to its first read of the clock or its end
Event(t, name, kw) ==
    /\ Returned(t)
    /\ exc[t] = None
    /\ Call
    /\ event(t, [NoFrame EXCEPT !.op = "event", !.self = name, !.active = Installed(t),
                                !.name = Str(name), !.kw = kw, !.given = kw],
             CurrentEvents(t), None)
    /\ UNCHANGED <<now, tmr, context, exc, entered, wsgi>>

\* lines 82 and 83 of a call of event() that has read the clock
event82(t) ==
    /\ frame[t].op = "event"
    /\ frame[t].line = "82"
    /\ Records(t, frame[t], CurrentEvents(t), None)
    /\ UNCHANGED <<now, tmr, context, exc, run, calls, entered, wsgi>>

\* -------------------------------------------------------------------- Timer
\* line 102, time()
Timer__enter__(t, m) ==
    /\ Returned(t)
    /\ exc[t] = None
    /\ Call
    /\ frame' = [frame EXCEPT ![t] = [NoFrame EXCEPT !.op = "Timer.__enter__", !.line = "102", !.self = m,
                                                     !.active = Installed(t), !.clock = time]]
    /\ entered' = [entered EXCEPT ![m] = @ \cup {t}]
    /\ last' = Line(t, m, "102 time()")
    /\ UNCHANGED <<now, ctx, tmr, context, scopes, exc, log, by, wsgi, alias>>

\* lines 102 and 103: self.start = what time() returned; return self.kw
Timer__enter__102(t) ==
    /\ frame[t].op = "Timer.__enter__"
    /\ frame[t].line = "102"
    /\ LET m == frame[t].self
       IN /\ tmr' = [tmr EXCEPT ![m] = Put(@, "start", frame[t].clock)]
          /\ scopes' = [scopes EXCEPT ![t] = Append(@, [Scope(t, "timer", m) EXCEPT !.at = frame[t].clock])]
    /\ frame' = [frame EXCEPT ![t] = NoFrame]
    /\ last' = End(frame[t], t, None, NoRecord)
    /\ UNCHANGED <<now, ctx, context, exc, log, run, calls, by, entered, wsgi, alias>>

\* self.kw after the update of __exit__, of the values the call has read
TimerKw(t) ==
    LET m == frame[t].self IN
    Update(tmr[m].kw, [name     |-> Str(tmr[m].name),
                       start    |-> Num(frame[t].start),
                       duration |-> Num(frame[t].duration)])

\* line 108, start=self.start: the first read of self.start
Timer__exit__(t, i) ==
    /\ CanLeave(t, i, "timer")
    /\ Call
    /\ LET m == scopes[t][i].obj
       IN /\ scopes' = [scopes EXCEPT ![t] = Remove(@, i)]
          /\ frame' = [frame EXCEPT ![t] = [NoFrame EXCEPT !.op = "Timer.__exit__", !.line = "109", !.self = m,
                                                           !.active = Installed(t), !.before = ctx,
                                                           !.start = tmr[m].start, !.given = tmr[m].kw,
                                                           !.scope = scopes[t][i], !.pos = i]]
          /\ last' = Line(t, m, "108")
    /\ UNCHANGED <<now, ctx, tmr, context, exc, log, by, entered, wsgi, alias>>

\* line 109, time()
Timer__exit__109(t) ==
    /\ frame[t].op = "Timer.__exit__"
    /\ frame[t].line = "109"
    /\ frame' = [frame EXCEPT ![t].line = "109 self.start", ![t].clock = time]
    /\ last' = Line(t, frame[t].self, "109")
    /\ UNCHANGED <<now, ctx, tmr, context, scopes, exc, log, run, calls, by, entered, wsgi, alias>>

\* line 109, - self.start: the second read of self.start
Timer__exit__109start(t) ==
    /\ frame[t].op = "Timer.__exit__"
    /\ frame[t].line = "109 self.start"
    /\ frame' = [frame EXCEPT ![t].line = "106", ![t].duration = frame[t].clock - tmr[frame[t].self].start]
    /\ last' = Line(t, frame[t].self, "109 self.start")
    /\ UNCHANGED <<now, ctx, tmr, context, scopes, exc, log, run, calls, by, entered, wsgi, alias>>

\* line 106, self.kw.update(...)
Timer__exit__106(t) ==
    /\ frame[t].op = "Timer.__exit__"
    /\ frame[t].line = "106"
    /\ tmr' = [tmr EXCEPT ![frame[t].self].kw = TimerKw(t)]
    /\ ctx' = Shared(ctx, frame[t].self, TimerKw(t))
    /\ frame' = [frame EXCEPT ![t].line = "110"]
    /\ last' = Line(t, frame[t].self, "106")
    /\ UNCHANGED <<now, context, scopes, exc, log, run, calls, by, entered, wsgi, alias>>

\* changed: the event is recorded only when the body did not raise
CalledOnSuccessOnly(e) == e = None
\* line 110 calls event() whatever __exit__ was given
Called(e) == TRUE

\* changed: the event goes to the Context that was installed when the Timer
\* scope was entered
ReceiverAtEntry(t, under) == under
\* line 75 of event() called by Timer.__exit__: the list installed on the thread
Receiver(t, under) == CurrentEvents(t)

\* line 110, event(**self.kw): self.kw is read; name binds the parameter, the
\* rest is a new dict
Timer__exit__110(t) ==
    /\ frame[t].op = "Timer.__exit__"
    /\ frame[t].line = "110"
    /\ LET kw == tmr[frame[t].self].kw
       IN frame' = [frame EXCEPT ![t].line = "75", ![t].name = kw["name"], ![t].kw = Without(kw, "name")]
    /\ last' = Line(t, frame[t].self, "110")
    /\ UNCHANGED <<now, ctx, tmr, context, scopes, exc, log, run, calls, by, entered, wsgi, alias>>

\* lines 75 to 83 of the event() that line 110 calls: start is in the dict, so
\* the clock is not read; then __exit__ returns None
Timer__exit__75(t) ==
    /\ frame[t].op = "Timer.__exit__"
    /\ frame[t].line = "75"
    /\ IF Called(exc[t])
       THEN event(t, frame[t], Receiver(t, frame[t].scope.under), Passed(frame[t].self))
       ELSE /\ frame' = [frame EXCEPT ![t] = NoFrame]
            /\ last' = End(frame[t], t, None, NoRecord)
            /\ UNCHANGED <<ctx, by, alias, scopes, log>>
    /\ exc' = [exc EXCEPT ![t] = AfterExit(@)]
    /\ UNCHANGED <<now, tmr, context, run, calls, entered, wsgi>>

\* ------------------------------------------------------------------ Context
\* getattr(context, 'kw', None) taken as a condition: a dict is true when not empty
AlreadyDefined(t) == "kw" \in DOMAIN context[t] /\ DOMAIN ctx[context[t].kw].kw # {}

\* line 128, time()
Context__enter__(t, c) ==
    /\ Returned(t)
    /\ exc[t] = None
    /\ Call
    /\ frame' = [frame EXCEPT ![t] = [NoFrame EXCEPT !.op = "Context.__enter__", !.line = "128", !.self = c,
                                                     !.active = Installed(t), !.before = ctx, !.clock = time]]
    /\ entered' = [entered EXCEPT ![c] = @ \cup {t}]
    /\ last' = Line(t, c, "128 time()")
    /\ UNCHANGED <<now, ctx, tmr, context, scopes, exc, log, by, wsgi, alias>>

\* line 128, self.start = what time() returned
Context__enter__128(t) ==
    /\ frame[t].line = "128"
    /\ ctx' = [ctx EXCEPT ![frame[t].self] = Put(@, "start", frame[t].clock)]
    /\ frame' = [frame EXCEPT ![t].line = "129"]
    /\ last' = Line(t, frame[t].self, "128")
    /\ UNCHANGED <<now, tmr, context, scopes, exc, log, run, calls, by, entered, wsgi, alias>>

\* lines 129 to 133: the test of the installed dict, then raise ValueError, or
\* context.events = self.events; context.kw = self.kw.  A call made by
\* MetricsContextApp.__call__ raises through it.
Context__enter__129(t) ==
    /\ frame[t].line = "129"
    /\ LET c == frame[t].self
           app == frame[t].op = "App.__call__"
       IN IF AlreadyDefined(t)
          THEN /\ exc' = [exc EXCEPT ![t] = "ValueError"]
               /\ wsgi' = IF app THEN [wsgi EXCEPT ![t] = [NoRequest EXCEPT !.environ = wsgi[t].environ,
                                                                            !.nested = wsgi[t].nested,
                                                                            !.raised = "ValueError"]]
                          ELSE wsgi
               /\ frame' = [frame EXCEPT ![t] = NoFrame]
               /\ last' = End(frame[t], t, "ValueError", NoRecord)
               /\ UNCHANGED <<context, scopes>>
          ELSE /\ context' = [context EXCEPT ![t] = Update(@, [kw |-> c, events |-> c])]
               /\ scopes' = [scopes EXCEPT ![t] = Append(@, [Scope(t, "ctx", c) EXCEPT !.at = frame[t].clock])]
               /\ frame' = [frame EXCEPT ![t].line = "134"]
               /\ last' = Line(t, c, "129")
               /\ UNCHANGED <<exc, wsgi>>
    /\ UNCHANGED <<now, ctx, tmr, log, run, calls, by, entered, alias>>

\* lines 134 to 137: log.debug("%s: entering new context"); return self.kw.  In
\* MetricsContextApp.__call__ the body of the with statement follows:
\* environ['metrics_context'] = c, and the wrapped application is called.
Context__enter__134(t) ==
    /\ frame[t].line = "134"
    /\ LET c == frame[t].self
           app == frame[t].op = "App.__call__"
       IN /\ log' = Append(log, LogCall("debug", t, "entering new context", EmptyDict))
          /\ wsgi' = IF app THEN [wsgi EXCEPT ![t].state = "handling",
                                              ![t].environ = Put(@, "metrics_context", Dict(c))]
                     ELSE wsgi
          /\ frame' = [frame EXCEPT ![t] = NoFrame]
          /\ last' = End(frame[t], t, None, NoRecord)
    /\ UNCHANGED <<now, ctx, tmr, context, scopes, exc, run, calls, by, entered, alias>>

\* changed: del context.events is left out
UninstallKwOnly(binding) == Without(binding, "kw")
\* del context.kw; del context.events
Uninstall(binding) == Without(Without(binding, "kw"), "events")

\* changed: the keys the caller has set are kept
ContextKwCallerWins(t) ==
    LET c == frame[t].self IN
    Update([events   |-> List(c),
            start    |-> Num(frame[t].start),
            duration |-> Num(frame[t].duration)], ctx[c].kw)
\* self.kw after the update of __exit__, of the values the call has read
ContextKw(t) ==
    LET c == frame[t].self IN
    Update(ctx[c].kw, [events   |-> List(c),
                       start    |-> Num(frame[t].start),
                       duration |-> Num(frame[t].duration)])

\* the argument of log.info
Emission(t, text) == LogCall("info", t, "record", text)

\* what the wrapped application returns to the with statement being left
Results(t, c) == IF wsgi[t].state = "handling" /\ wsgi[t].ctx = c THEN Responses ELSE {NoneVal}

\* lines 140 to 145: del context.kw, which raises AttributeError when nothing
\* is installed; del context.events; start=self.start, the first read of
\* self.start
Context__exit__(t, i) ==
    /\ CanLeave(t, i, "ctx")
    /\ Call
    /\ LET c == scopes[t][i].obj
           called == [NoFrame EXCEPT !.op = "Context.__exit__", !.self = c, !.active = Installed(t),
                                     !.before = ctx, !.clock = time, !.given = ctx[c].kw,
                                     !.scope = scopes[t][i], !.pos = i]
       IN /\ scopes' = [scopes EXCEPT ![t] = Remove(@, i)]
          /\ \E r \in Results(t, c) :
                IF "kw" \notin DOMAIN context[t]
                THEN /\ exc' = [exc EXCEPT ![t] = "AttributeError"]
                     /\ wsgi' = [wsgi EXCEPT ![t] = App__return__(@, c, r, exc[t], "AttributeError")]
                     /\ last' = End(called, t, "AttributeError", NoRecord)
                     /\ UNCHANGED <<context, frame>>
                ELSE /\ context' = [context EXCEPT ![t] = Uninstall(@)]
                     /\ frame' = [frame EXCEPT ![t] = [called EXCEPT !.line = "146", !.start = ctx[c].start,
                                                                     !.r = r]]
                     /\ last' = Line(t, c, "145")
                     /\ UNCHANGED <<exc, wsgi>>
    /\ UNCHANGED <<now, ctx, tmr, log, by, entered, alias>>

\* line 146, time()
Context__exit__146(t) ==
    /\ frame[t].op = "Context.__exit__"
    /\ frame[t].line = "146"
    /\ frame' = [frame EXCEPT ![t].line = "146 self.start", ![t].clock = time]
    /\ last' = Line(t, frame[t].self, "146")
    /\ UNCHANGED <<now, ctx, tmr, context, scopes, exc, log, run, calls, by, entered, wsgi, alias>>

\* line 146, - self.start: the second read of self.start
Context__exit__146start(t) ==
    /\ frame[t].op = "Context.__exit__"
    /\ frame[t].line = "146 self.start"
    /\ frame' = [frame EXCEPT ![t].line = "143", ![t].duration = frame[t].clock - ctx[frame[t].self].start]
    /\ last' = Line(t, frame[t].self, "146 self.start")
    /\ UNCHANGED <<now, ctx, tmr, context, scopes, exc, log, run, calls, by, entered, wsgi, alias>>

\* line 143, self.kw.update(...)
Context__exit__143(t) ==
    /\ frame[t].op = "Context.__exit__"
    /\ frame[t].line = "143"
    /\ ctx' = [ctx EXCEPT ![frame[t].self].kw = ContextKw(t)]
    /\ frame' = [frame EXCEPT ![t].line = "147"]
    /\ last' = Line(t, frame[t].self, "143")
    /\ UNCHANGED <<now, tmr, context, scopes, exc, log, run, calls, by, entered, wsgi, alias>>

\* line 147, json.dumps(self.kw): the dict and the event list as they are now;
\* a TypeError ends the call
Context__exit__147(t) ==
    /\ frame[t].op = "Context.__exit__"
    /\ frame[t].line = "147"
    /\ LET c == frame[t].self IN
       IF CanDump(ctx[c].kw)
       THEN /\ frame' = [frame EXCEPT ![t].line = "147 log.info", ![t].text = dumps(ctx[c].kw)]
            /\ last' = Line(t, c, "147")
            /\ UNCHANGED <<exc, wsgi>>
       ELSE /\ exc' = [exc EXCEPT ![t] = "TypeError"]
            /\ wsgi' = [wsgi EXCEPT ![t] = App__return__(@, c, frame[t].r, exc[t], "TypeError")]
            /\ frame' = [frame EXCEPT ![t] = NoFrame]
            /\ last' = End(frame[t], t, "TypeError", NoRecord)
    /\ UNCHANGED <<now, ctx, tmr, context, scopes, log, run, calls, by, entered, alias>>

\* line 147, log.info of what json.dumps returned
Context__exit__info(t) ==
    /\ frame[t].line = "147 log.info"
    /\ log' = Append(log, Emission(t, frame[t].text))
    /\ frame' = [frame EXCEPT ![t].line = "149"]
    /\ wsgi' = [wsgi EXCEPT ![t].emissions = IF wsgi[t].state = "handling" THEN @ + 1 ELSE @]
    /\ last' = Line(t, frame[t].self, "147 log.info")
    /\ UNCHANGED <<now, ctx, tmr, context, scopes, exc, run, calls, by, entered, alias>>

\* lines 149 and 150: log.debug("%s: leaving context"); the call returns None, and
\* the with statement of MetricsContextApp.__call__ returns
Context__exit__149(t) ==
    /\ frame[t].line = "149"
    /\ log' = Append(log, LogCall("debug", t, "leaving context", EmptyDict))
    /\ exc' = [exc EXCEPT ![t] = AfterExit(@)]
    /\ wsgi' = [wsgi EXCEPT ![t] = App__return__(@, frame[t].self, frame[t].r, exc[t], None)]
    /\ frame' = [frame EXCEPT ![t] = NoFrame]
    /\ last' = End(frame[t], t, None, Emission(t, frame[t].text))
    /\ UNCHANGED <<now, ctx, tmr, context, scopes, run, calls, by, entered, alias>>

\* -------------------------------------------------------- MetricsContextApp
\* changed: the path and the query string change places
RequestFieldsSwapped(environ, t) ==
    [REMOTE_ADDR |-> environ["REMOTE_ADDR"], PATH_INFO |-> environ["QUERY_STRING"],
     QUERY_STRING |-> environ["PATH_INFO"], thread |-> Str(t)]
\* the keyword arguments __call__ gives Context
RequestFields(environ, t) ==
    [REMOTE_ADDR |-> environ["REMOTE_ADDR"], PATH_INFO |-> environ["PATH_INFO"],
     QUERY_STRING |-> environ["QUERY_STRING"], thread |-> Str(t)]

\* a Context object no scope and no thread refers to: the place of a new object
Unused(c) ==
    /\ \A t \in Threads : ~ \E i \in 1..Len(scopes[t]) : scopes[t][i].kind = "ctx" /\ scopes[t][i].obj = c
    /\ \A t \in Threads : "kw" \in DOMAIN context[t] => context[t].kw # c
    /\ \A t \in Threads : wsgi[t].ctx # c

\* __call__(environ, start_response) up to line 128 of the __enter__ of the
\* Context it constructs: no other thread can reach the new object, so the
\* read of the clock and the store are one step; history: nested, whether a
\* Context scope is open on the thread
App__call__(t, environ, c) ==
    /\ Returned(t)
    /\ exc[t] = None
    /\ wsgi[t].state = "idle"
    /\ Unused(c)
    /\ c = CHOOSE d \in run.apps : Unused(d)
    /\ Call
    /\ ctx' = [ctx EXCEPT ![c] = Put(Context__init__(RequestFields(environ, t)), "start", time)]
    /\ by' = [by EXCEPT ![c] = <<>>]
    /\ alias' = [alias EXCEPT ![c] = <<>>]
    /\ entered' = [entered EXCEPT ![c] = {t}]
    /\ wsgi' = [wsgi EXCEPT ![t] = [NoRequest EXCEPT !.state = "entering", !.environ = environ, !.ctx = c,
                                       !.nested = \E i \in 1..Len(scopes[t]) : scopes[t][i].kind = "ctx"]]
    /\ frame' = [frame EXCEPT ![t] = [NoFrame EXCEPT !.op = "App.__call__", !.line = "129", !.self = c,
                                                     !.active = Installed(t),
                                                     !.before = [ctx EXCEPT ![c] = Context__init__(
                                                                                RequestFields(environ, t))],
                                                     !.clock = time, !.given = environ]]
    /\ last' = Line(t, c, "Context()")
    /\ UNCHANGED <<now, tmr, context, scopes, exc, log>>

\* ------------------------------------------------------------- the callers
HasOpen(t, kind, obj) == \E i \in 1..Len(scopes[t]) : scopes[t][i].kind = kind /\ scopes[t][i].obj = obj

\* c[k] = v on the dict a Context scope handed back
SetContextItem(t, c, k, v) ==
    /\ Returned(t)
    /\ exc[t] = None
    /\ HasOpen(t, "ctx", c)
    /\ ctx' = [ctx EXCEPT ![c].kw = Put(@, k, v)]
    /\ last' = Did("c[k]=v", t, c, None, EmptyDict, <<>>)
    /\ UNCHANGED <<now, tmr, context, scopes, exc, log, run, calls, by, entered, wsgi, alias, frame>>

\* t[k] = v on the dict a Timer scope handed back, during the scope or, kept
\* by the caller, after it
SetTimerItem(t, m, k, v) ==
    /\ Returned(t)
    /\ exc[t] = None
    /\ HasOpen(t, "timer", m) \/ (run.late /\ "start" \in DOMAIN tmr[m])
    /\ tmr' = [tmr EXCEPT ![m].kw = Put(@, k, v)]
    /\ ctx' = Shared(ctx, m, Put(tmr[m].kw, k, v))
    /\ last' = Did("t[k]=v", t, m, None, EmptyDict, <<>>)
    /\ UNCHANGED <<now, context, scopes, exc, log, run, calls, by, entered, wsgi, alias, frame>>

\* the body of a scope raises
Raise(t) ==
    /\ Returned(t)
    /\ exc[t] = None
    /\ scopes[t] # <<>>
    /\ exc' = [exc EXCEPT ![t] = "BodyError"]
    /\ last' = Did("raise", t, None, "BodyError", EmptyDict, <<>>)
    /\ UNCHANGED <<now, ctx, tmr, context, scopes, log, run, calls, by, entered, wsgi, alias, frame>>

\* a caller catches what reached it
Catch(t) ==
    /\ Returned(t)
    /\ exc[t] # None
    /\ exc' = [exc EXCEPT ![t] = None]
    /\ last' = Did("except", t, None, None, EmptyDict, <<>>)
    /\ UNCHANGED <<now, ctx, tmr, context, scopes, log, run, calls, by, entered, wsgi, alias, frame>>

\* time passes
Tick ==
    /\ run.ticks
    /\ now < MaxClock
    /\ now' = now + 1
    /\ last' = Did("tick", None, None, None, EmptyDict, <<>>)
    /\ UNCHANGED <<ctx, tmr, context, scopes, exc, log, run, calls, by, entered, wsgi, alias, frame>>

\* the threads that may take the next step: the threads of a run differ in name
\* only, and the one that makes the first call of the run is named t1
Callers == IF calls = 0 THEN run.threads \cap {"t1"} ELSE run.threads

Next ==
    \/ Tick
    \/ \E t \in Callers, n \in EventNames, kw \in run.args : Event(t, n, kw)
    \/ \E t \in Callers : event82(t)
    \/ \E t \in Callers, m \in run.timers : Timer__enter__(t, m)
    \/ \E t \in Callers : Timer__enter__102(t)
    \/ \E t \in Callers, i \in 1..MaxCalls : Timer__exit__(t, i)
    \/ \E t \in Callers : Timer__exit__109(t)
    \/ \E t \in Callers : Timer__exit__109start(t)
    \/ \E t \in Callers : Timer__exit__106(t)
    \/ \E t \in Callers : Timer__exit__110(t)
    \/ \E t \in Callers : Timer__exit__75(t)
    \/ \E t \in Callers, c \in run.ctxs : Context__enter__(t, c)
    \/ \E t \in Callers : Context__enter__128(t)
    \/ \E t \in Callers : Context__enter__129(t)
    \/ \E t \in Callers : Context__enter__134(t)
    \/ \E t \in Callers, i \in 1..MaxCalls : Context__exit__(t, i)
    \/ \E t \in Callers : Context__exit__146(t)
    \/ \E t \in Callers : Context__exit__146start(t)
    \/ \E t \in Callers : Context__exit__143(t)
    \/ \E t \in Callers : Context__exit__147(t)
    \/ \E t \in Callers : Context__exit__info(t)
    \/ \E t \in Callers : Context__exit__149(t)
    \/ \E t \in Callers, c \in run.ctxs \cup run.apps, k \in run.ckeys, v \in run.vals :
            SetContextItem(t, c, k, v)
    \/ \E t \in Callers, m \in run.timers, k \in run.tkeys, v \in run.vals : SetTimerItem(t, m, k, v)
    \/ \E t \in Callers : run.raises /\ Raise(t)
    \/ \E t \in Callers : Catch(t)
    \/ \E t \in Callers, environ \in run.envs, c \in run.apps : App__call__(t, environ, c)

Spec == Init /\ [][Next]_vars

\* ==================================================================== claims
Infos(l) == Cardinality({i \in 1..Len(l) : l[i].level = "info"})
EventLists(cs) == [c \in Ctxs |-> cs[c].events]
HoldsObject(o) ==
    \/ \E k \in DOMAIN o.kw : o.kw[k].tag = "object"
    \/ \E i \in 1..Len(o.events) : \E k \in DOMAIN o.events[i] : o.events[i][k].tag = "object"
Exits == {"Timer.__exit__", "Context.__exit__"}
\* the steps of Timer.__enter__ and of Timer.__exit__ before its last
TimerLines == {"102 time()", "108", "109", "109 self.start", "106", "110"}
\* the events array json.dumps makes of the first n records of a list
Array(events, n) == [tag |-> "array", items |-> [i \in 1..n |-> JsonObject(events[i])]]

\* C1: the events array of the record a Context scope emits when it is left is
\* exactly the sequence of the events recorded on the thread while that scope
\* was open, in the order of the calls.
C1_EmittedEventsAreTheScopesEvents ==
    (last.op = "Context.__exit__" /\ last.raised = None) =>
        last.emitted.data["events"] = Array(last.seen, Len(last.seen))

\* C2: entering a Context while a context is installed on the thread raises
\* ValueError and leaves the installed context installed, whatever its field
\* map holds.
C2_SecondEnterFails ==
    (last.op = "Context.__enter__" /\ last.active # None) =>
        /\ last.raised = "ValueError"
        /\ context[last.t].kw = last.active

\* C3: when a Context.__enter__ has failed because a context is installed, the
\* thread's binding is the one it had when the call began, and the installed
\* Context's field map, event list and start are as they were then (a Context
\* installed by this thread only).
C3_FailedEnterMutatesNothing ==
    (/\ last.op = "Context.__enter__" /\ last.raised = "ValueError"
     /\ entered[last.active] = {last.t}) =>
        /\ Installed(last.t) = last.active
        /\ ctx[last.active] = last.before[last.active]

\* C4: the Context.__exit__ that leaves a Context scope has emitted one info
\* record when it ends, whether or not the body raised, and no info record is
\* logged by anything but line 147 of a Context.__exit__ in progress, one
\* record each time (a record json cannot serialize, which C9 is about, set
\* aside).
C4_OneEmissionPerScopeLeft ==
    [][/\ (last'.op = "Context.__exit__" /\ last'.raised # "TypeError") =>
            /\ last'.emitted.level = "info"
            /\ last'.emitted.thread = last'.t
            /\ \E i \in 1..Len(log') : log'[i] = last'.emitted
       /\ Infos(log') # Infos(log) =>
            /\ Infos(log') = Infos(log) + 1
            /\ \E t \in Threads : frame[t].line = "147 log.info" /\ frame'[t].line = "149"]_vars

\* C5: event() and Timer.__exit__ on a thread with no context installed raise
\* nothing, add one warning of that thread to the log, leave every event list
\* and every thread's binding as they were, and leave the thread running as it
\* was.
C5_NoContextDropsWithWarning ==
    [][(last'.op \in {"event", "Timer.__exit__"} /\ "events" \notin DOMAIN context[last'.t]) =>
            /\ last'.raised = None
            /\ exc'[last'.t] = exc[last'.t]
            /\ Len(log') = Len(log) + 1
            /\ SubSeq(log', 1, Len(log)) = log
            /\ log'[Len(log')].level = "warning"
            /\ log'[Len(log')].thread = last'.t
            /\ EventLists(ctx') = EventLists(ctx)
            /\ context' = context]_vars
C5_Witness ==
    /\ last.op = "Timer.__exit__"
    /\ last.active = None
    /\ log # <<>>
    /\ log[Len(log)].level = "warning"

\* C6: Timer.__exit__ with a context installed appends exactly one event to the
\* installed Context's list and none to any other, at its last step, whether or
\* not an exception is propagating; entering the Timer, the steps of its body
\* and the earlier steps of __exit__ append nothing.
C6_TimerAppendsOneEventAtExit ==
    [][/\ (last'.op = "Timer.__exit__" /\ "events" \in DOMAIN context[last'.t]) =>
            LET c == context[last'.t].events IN
            /\ Len(ctx'[c].events) = Len(ctx[c].events) + 1
            /\ SubSeq(ctx'[c].events, 1, Len(ctx[c].events)) = ctx[c].events
            /\ \A d \in Ctxs \ {c} : ctx'[d].events = ctx[d].events
       /\ (last'.op \in {"Timer.__enter__", "t[k]=v", "raise", "except"} \cup TimerLines) =>
            EventLists(ctx') = EventLists(ctx)]_vars
C6_Witness ==
    /\ last.op = "Timer.__exit__"
    /\ last.active # None
    /\ exc[last.t] = "BodyError"
    /\ ctx[last.active].events # <<>>

\* C7: the events of a Context installed by one thread only were all appended
\* by calls of that thread.
C7_OnlyOwnThreadsEvents ==
    \A c \in Ctxs : \A t \in Threads :
        entered[c] \subseteq {t} => \A i \in 1..Len(by[c]) : by[c][i] = t
C7_Witness ==
    /\ entered["c1"] = {"t1"} /\ by["c1"] # <<>>
    /\ entered["c2"] = {"t2"} /\ by["c2"] # <<>>

\* C8: when __exit__ of a Timer or Context scope has done its work while an
\* exception of the body was propagating, the same exception propagates on.
C8_BodyFailurePropagates ==
    [][(last'.op \in Exits /\ last'.raised = None /\ exc[last'.t] # None) =>
            exc'[last'.t] = exc[last'.t]]_vars
C8_Witness ==
    /\ last.op = "Context.__exit__"
    /\ last.raised = None
    /\ exc[last.t] = "BodyError"

\* C9: leaving a Context scope whose field map or events held, when __exit__
\* was called, a value json cannot serialize (under a key __exit__ does not set
\* itself) adds no info record to the log and raises TypeError to the caller
\* (a Context object used by one thread only).
C9_UnserializableRaisesTypeError ==
    [][(/\ last'.op = "Context.__exit__"
        /\ entered[last'.obj] = {last'.t}
        /\ LET self == last'.before[last'.obj]
           IN \/ \E k \in DOMAIN self.kw \ ContextKeys : self.kw[k].tag = "object"
              \/ \E i \in 1..Len(self.events) : \E k \in DOMAIN self.events[i] :
                    self.events[i][k].tag = "object") =>
            /\ Infos(log') = Infos(log)
            /\ last'.emitted = NoRecord
            /\ last'.raised = "TypeError"
            /\ exc'[last'.t] = "TypeError"]_vars

\* C10: event(name, **kw) with a context installed appends one record with the
\* name, the caller's fields as given, start as given or else the clock the
\* call read, and no other key; a Timer's record has the Timer's name, start and
\* duration, and every other field of the Timer's dict as it was when __exit__
\* was called (a Timer used by one thread only).
C10_RecordHoldsWhatWasGiven ==
    [][(/\ last'.op \in {"event", "Timer.__exit__"}
        /\ "events" \in DOMAIN context[last'.t]
        /\ last'.op = "Timer.__exit__" => entered[last'.obj] = {last'.t}) =>
            LET c == context[last'.t].events
                rec == ctx'[c].events[Len(ctx'[c].events)]
                kw == last'.kw
            IN /\ ctx'[c].events = Append(ctx[c].events, rec)
               /\ DOMAIN kw \subseteq DOMAIN rec
               /\ IF last'.op = "event"
                  THEN /\ rec["name"] = Str(last'.obj)
                       /\ \A k \in DOMAIN kw : rec[k] = kw[k]
                       /\ DOMAIN rec = DOMAIN kw \cup {"name", "start"}
                       /\ "start" \notin DOMAIN kw => rec["start"] = Num(last'.clock)
                  ELSE /\ rec["name"] = Str(tmr[last'.obj].name)
                       /\ \A k \in DOMAIN kw \ {"name", "start", "duration"} : rec[k] = kw[k]
                       /\ rec["start"] = Num(tmr'[last'.obj].start)
                       /\ "duration" \in DOMAIN rec]_vars
C10_Witness ==
    \E c \in Ctxs :
        /\ Len(ctx[c].events) = 2
        /\ ctx[c].events[1]["name"] = Str("bar")
        /\ ctx[c].events[1]["start"] = Num(1)
        /\ now = 0
        /\ ctx[c].events[2]["name"] = Str("foo")
        /\ {"b", "d"} \subseteq DOMAIN ctx[c].events[2]
        /\ ctx[c].events[2]["b"] = Num(6)
        /\ ctx[c].events[2]["d"] = Num(7)
        /\ "duration" \in DOMAIN ctx[c].events[2]

\* ------------------------------------------------------------------------
\* the Context scopes a thread has open
OpenContexts(t) == {j \in 1..Len(scopes[t]) : scopes[t][j].kind = "ctx"}

Bookkeeping == ContextKeys
Handling(t) == wsgi[t].state = "handling"
\* the step leaves the with statement of the __call__ thread t is in
LeavesApp(t) == Handling(t) /\ last'.op = "Context.__exit__" /\ last'.t = t /\ last'.obj = wsgi[t].ctx

\* C11: when MetricsContextApp calls the wrapped handler, a Context created by
\* this call, with no events, is the one installed on the calling thread;
\* environ['metrics_context'] is its field map, which holds REMOTE_ADDR,
\* PATH_INFO and QUERY_STRING of the request and the thread's name and nothing
\* else; and every field the map holds when the scope is left, those the
\* handler added included, is in the record emitted.
C11_HandlerSeesTheRequestsContext ==
    [][/\ (last'.op = "App.__call__" /\ last'.raised = None) =>
            LET t == last'.t
                c == last'.obj
                environ == last'.kw
            IN /\ wsgi'[t].state = "handling"
               /\ context'[t] = [kw |-> c, events |-> c]
               /\ entered'[c] = {t}
               /\ \A u \in Threads \ {t} : Installed(u) # c /\ ~ HasOpen(u, "ctx", c)
               /\ last'.before[c] = Context__init__(ctx'[c].kw)
               /\ ctx'[c].events = <<>>
               /\ wsgi'[t].environ = Put(environ, "metrics_context", Dict(c))
               /\ ctx'[c].kw = [REMOTE_ADDR |-> environ["REMOTE_ADDR"],
                                PATH_INFO |-> environ["PATH_INFO"],
                                QUERY_STRING |-> environ["QUERY_STRING"],
                                thread |-> Str(t)]
       /\ \A t \in Threads : (LeavesApp(t) /\ last'.raised = None) =>
            LET kw == last'.before[wsgi[t].ctx].kw
                rec == last'.emitted
            IN /\ rec.level = "info"
               /\ \A k \in DOMAIN kw \ Bookkeeping :
                    k \in DOMAIN rec.data /\ rec.data[k] = JsonScalar(kw[k])]_vars
C11_Witness ==
    /\ last.op = "Context.__exit__"
    /\ last.raised = None
    /\ "metrics_context" \in DOMAIN wsgi[last.t].environ
    /\ wsgi[last.t].environ["metrics_context"] = Dict(last.obj)
    /\ {"b", "thread", "PATH_INFO"} \subseteq DOMAIN last.emitted.data
    /\ last.emitted.data["b"] = [tag |-> "number", val |-> 6]
    /\ last.emitted.data["PATH_INFO"] = [tag |-> "string", val |-> "/x"]
    /\ last.emitted.data["thread"] = [tag |-> "string", val |-> last.t]

\* C12, as stated: when a call of MetricsContextApp has called the handler, the
\* Context it created is the one installed on the thread; the __exit__ that
\* leaves the scope of that Context raises nothing and the thread has logged
\* one info record since the call; the call returns what the handler returned,
\* or raises what the handler raised; and afterwards no context is installed on
\* the thread.
C12_EveryRequestEmitsOnce ==
    [][/\ (last'.op = "App.__call__" /\ last'.raised = None) =>
            context'[last'.t] = [kw |-> last'.obj, events |-> last'.obj]
       /\ \A t \in Threads : LeavesApp(t) =>
            /\ last'.raised = None
            /\ wsgi[t].emissions = 1
            /\ context'[t] = EmptyDict
            /\ exc[t] = None => wsgi'[t].returned = wsgi'[t].result /\ exc'[t] = None
            /\ exc[t] # None => exc'[t] = exc[t]]_vars

\* C12, amended: a call of MetricsContextApp made while the thread has no
\* Context scope open raises nothing and has entered one Context scope, that of
\* the Context it created; between the call and the end of the __exit__ that leaves that
\* scope the thread logs info records only at line 147 of that __exit__, and
\* when that __exit__ ends it has logged one, or none and raised TypeError
\* when json cannot serialize the record (C9); the call returns what the
\* handler returned, or raises what the handler raised; and afterwards no
\* context is installed on the thread, so the next call on the thread goes
\* the same way.
C12_OneContextPerRequest ==
    [][/\ (last'.op = "App.__call__" /\ ~ wsgi'[last'.t].nested) =>
            LET open == {j \in 1..Len(scopes'[last'.t]) : scopes'[last'.t][j].kind = "ctx"} IN
            /\ last'.raised = None
            /\ Cardinality(open) = 1
            /\ \A j \in open : scopes'[last'.t][j].obj = last'.obj
            /\ Infos(log') = Infos(log)
       /\ \A t \in Threads : (Handling(t) /\ ~ wsgi[t].nested) =>
            /\ wsgi'[t].emissions # wsgi[t].emissions =>
                    /\ frame[t].line = "147 log.info"
                    /\ frame[t].self = wsgi[t].ctx
            /\ LeavesApp(t) =>
                 /\ last'.raised \in {None, "TypeError"}
                 /\ wsgi[t].emissions = (IF last'.raised = None THEN 1 ELSE 0)
                 /\ last'.raised = None => last'.emitted.level = "info" /\ last'.emitted.thread = t
                 /\ context'[t] = EmptyDict
                 /\ wsgi'[t].state = "idle"
                 /\ (last'.raised = None /\ exc[t] = None) =>
                        /\ wsgi'[t].returned = wsgi'[t].result
                        /\ wsgi'[t].raised = None /\ exc'[t] = None
                 /\ (last'.raised = None /\ exc[t] # None) =>
                        wsgi'[t].raised = exc[t] /\ exc'[t] = exc[t]
                 /\ last'.raised # None => wsgi'[t].raised = last'.raised /\ exc'[t] = last'.raised
            /\ (last'.t = t /\ ~ LeavesApp(t)) => Handling(t)']_vars
C12_Witness ==
    /\ last.op = "Context.__exit__"
    /\ last.raised = "TypeError"
    /\ last.emitted = NoRecord
    /\ wsgi[last.t].state = "idle"
    /\ wsgi[last.t].environ # EmptyDict
    /\ ~ wsgi[last.t].nested
    /\ wsgi[last.t].result = Str("body")
    /\ wsgi[last.t].returned = NoneVal
    /\ wsgi[last.t].raised = "TypeError"
    /\ wsgi[last.t].emissions = 0
    /\ Infos(log) = 1
    /\ context[last.t] = EmptyDict

\* C13: when a Context scope is entered on a thread with no context installed,
\* also by a Context object whose earlier scope has been left, the event list
\* installed on the thread is empty (a Context object used by one thread only).
C13_EnteredWithNoEvents ==
    (/\ last.op = "Context.__enter__" /\ last.raised = None /\ last.active = None
     /\ entered[last.obj] = {last.t}) =>
        /\ context[last.t].events = last.obj
        /\ ctx[context[last.t].events].events = <<>>

\* C14: the step that leaves a Context scope, whether it raises nothing,
\* TypeError or AttributeError and whether or not the body raised, leaves no
\* context installed on the thread; and on a thread with no context installed
\* event() is dropped with a warning and Context.__enter__ raises nothing and
\* installs the Context.
C14_NoContextAfterExit ==
    [][/\ last'.op = "Context.__exit__" => context'[last'.t] = EmptyDict
       /\ (last'.op = "event" /\ context[last'.t] = EmptyDict) =>
            /\ log' = Append(log, NoContext(last'.t, last'.kw))
            /\ EventLists(ctx') = EventLists(ctx)
       /\ (last'.op = "Context.__enter__" /\ last'.active = None) =>
            /\ last'.raised = None
            /\ context'[last'.t] = [kw |-> last'.obj, events |-> last'.obj]]_vars
C14_Witness ==
    /\ last.op = "Context.__enter__"
    /\ last.raised = None
    /\ context[last.t] = [kw |-> last.obj, events |-> last.obj]
    /\ "events" \in DOMAIN ctx[last.obj].kw
    /\ HoldsObject(ctx[last.obj])
    /\ Infos(log) = 0

\* C15: no step changes an event record that is in a Context's list: not the
\* assignments to a Timer's dict made after the Timer's scope, nor entering and
\* leaving the same Timer again; and the record a Context scope has emitted
\* shows the events that were in the list when __exit__ began, and those
\* appended before json.dumps, as they are in the list.
C15_RecordedEventsNeverChange ==
    [][/\ \A c \in Ctxs : ~ (last'.op = "Context()" /\ last'.obj = c) =>
            /\ Len(ctx'[c].events) >= Len(ctx[c].events)
            /\ SubSeq(ctx'[c].events, 1, Len(ctx[c].events)) = ctx[c].events
       /\ (last'.op = "Context.__exit__" /\ last'.raised = None) =>
            LET items == last'.emitted.data["events"].items
                events == ctx'[last'.obj].events
            IN /\ Len(last'.before[last'.obj].events) <= Len(items)
               /\ Len(items) <= Len(events)
               /\ last'.emitted.data["events"] = Array(events, Len(items))]_vars
C15_Witness ==
    /\ last.op = "Context.__exit__"
    /\ last.raised = None
    /\ Len(ctx[last.obj].events) = 1
    /\ ctx[last.obj].events[1]["name"] = Str("foo")
    /\ "b" \notin DOMAIN ctx[last.obj].events[1]
    /\ "b" \in DOMAIN tmr["m1"].kw
    /\ "b" \notin DOMAIN last.emitted.data["events"].items[1]

\* C16: the event of a Timer scope entered and left while one Context is
\* installed has as start the clock read at the entry of that scope and as
\* duration the clock read at its exit less that start, which is not negative,
\* and does not start before the Context's start; the record a Context scope
\* emits has as start the clock read at the entry of that scope and as duration
\* the clock read at its exit less that start (a Timer and a Context used by
\* one thread only).
C16_SpansAreThoseOfTheScopes ==
    [][/\ (/\ last'.op = "Timer.__exit__"
           /\ last'.active # None
           /\ last'.left.under = last'.active
           /\ entered[last'.obj] = {last'.t}
           /\ entered[last'.active] = {last'.t}) =>
            LET c == last'.active
                rec == ctx'[c].events[Len(ctx'[c].events)]
            IN /\ rec["start"] = Num(last'.left.at)
               /\ rec["duration"] = Num(last'.clock - last'.left.at)
               /\ rec["duration"].val >= 0
               /\ ctx[c].start <= rec["start"].val
       /\ (/\ last'.op = "Context.__exit__" /\ last'.raised = None
           /\ entered[last'.obj] = {last'.t}) =>
            LET rec == last'.emitted.data
            IN /\ rec["start"] = [tag |-> "number", val |-> last'.left.at]
               /\ rec["duration"] = [tag |-> "number", val |-> last'.clock - last'.left.at]]_vars

\* C17: the step that leaves a Timer scope delivers the event to the Context
\* installed on the thread at that step, whichever was installed when the scope
\* was entered: with none installed it records nothing in any list, that of the
\* Context the scope was entered under included, and adds a warning to the log,
\* whose earlier entries stay; with one installed it appends the event to that
\* Context's list and to no other, and logs nothing.
C17_DeliveredToTheContextAtExit ==
    [][last'.op = "Timer.__exit__" =>
            LET t == last'.t
                u == last'.left.under
                c == last'.active
            IN IF c = None
               THEN /\ EventLists(ctx') = EventLists(ctx)
                    /\ u # None => ctx'[u] = ctx[u]
                    /\ Len(log') = Len(log) + 1
                    /\ SubSeq(log', 1, Len(log)) = log
                    /\ log'[Len(log')].level = "warning"
               ELSE /\ Len(ctx'[c].events) = Len(ctx[c].events) + 1
                    /\ ctx'[c].events[Len(ctx'[c].events)]["name"] = Str(tmr[last'.obj].name)
                    /\ \A d \in Ctxs \ {c} : ctx'[d].events = ctx[d].events
                    /\ log' = log]_vars
C17_Witness ==
    /\ last.op = "Timer.__exit__"
    /\ last.left.under # None
    /\ last.active = None
    /\ ctx[last.left.under].events = <<>>
    /\ Infos(log) = 1
    /\ log[Len(log)].level = "warning"
    /\ \E i \in 1..Len(log) : /\ log[i].level = "info"
                               /\ log[i].data["events"] = [tag |-> "array", items |-> <<>>]

\* C18: when a Timer scope is left inside the one Context scope its thread has
\* open, under which it was entered, its event is appended last, after the
\* events recorded while the scope was open, which are the last in the list
\* before it: the events of the Timer scopes nested in it come before its own,
\* in the order in which those scopes were left.
C18_InnerTimersComeFirst ==
    [][(/\ last'.op = "Timer.__exit__"
        /\ last'.active # None
        /\ last'.left.under = last'.active
        /\ entered[last'.active] = {last'.t}
        /\ \E j \in 1..(last'.pos - 1) : /\ OpenContexts(last'.t) = {j}
                                          /\ scopes[last'.t][j].obj = last'.active) =>
            LET c == last'.active
                before == ctx[c].events
                during == last'.left.seen
                after == ctx'[c].events
            IN /\ Len(after) = Len(before) + 1
               /\ SubSeq(after, 1, Len(before)) = before
               /\ after[Len(after)]["name"] = Str(tmr[last'.obj].name)
               /\ Len(during) <= Len(before)
               /\ SubSeq(before, Len(before) - Len(during) + 1, Len(before)) = during]_vars
C18_Witness ==
    /\ last.op = "Timer.__exit__"
    /\ last.obj = "m1"
    /\ last.active # None
    /\ last.left.under = last.active
    /\ Len(last.left.seen) = 1
    /\ last.left.seen[1]["name"] = Str("baz")
    /\ Len(ctx[last.active].events) = 2
    /\ ctx[last.active].events[1] = last.left.seen[1]
    /\ ctx[last.active].events[2]["name"] = Str("foo")
    /\ scopes[last.t][Len(scopes[last.t])].kind = "ctx"

\* C19: whatever the Timer's dict holds under name, start and duration when
\* __exit__ is called, the event appended holds the Timer's name, the start the
\* Timer took at __enter__ and the clock __exit__ read less that start, and
\* every other key of the dict with its value; whatever the Context's dict
\* holds under events, start and duration when __exit__ is called, the record
\* emitted holds the Context's event list, the start the Context held then and
\* the clock __exit__ read less that start, and every other key of the dict
\* with its value (a Timer and a Context used by one thread only).
C19_BookkeepingKeysWin ==
    [][/\ (/\ last'.op = "Timer.__exit__" /\ last'.active # None
           /\ entered[last'.obj] = {last'.t}) =>
            LET m == last'.obj
                kw == last'.kw
                rec == ctx'[last'.active].events[Len(ctx'[last'.active].events)]
            IN /\ DOMAIN rec = DOMAIN kw \cup TimerKeys
               /\ rec["name"] = Str(tmr[m].name)
               /\ rec["start"] = Num(tmr[m].start)
               /\ rec["duration"] = Num(last'.clock - tmr[m].start)
               /\ \A k \in DOMAIN kw \ TimerKeys : rec[k] = kw[k]
       /\ (/\ last'.op = "Context.__exit__" /\ last'.raised = None
           /\ entered[last'.obj] = {last'.t}) =>
            LET c == last'.obj
                self == last'.before[c]
                kw == self.kw
                rec == last'.emitted.data
            IN /\ DOMAIN rec = DOMAIN kw \cup ContextKeys
               /\ rec["events"].tag = "array"
               /\ Len(rec["events"].items) >= Len(self.events)
               /\ rec["events"] = Array(ctx'[c].events, Len(rec["events"].items))
               /\ rec["start"] = [tag |-> "number", val |-> self.start]
               /\ rec["duration"] = [tag |-> "number", val |-> last'.clock - self.start]
               /\ \A k \in DOMAIN kw \ ContextKeys : rec[k] = JsonScalar(kw[k])]_vars
C19_Witness ==
    /\ last.op = "Context.__exit__"
    /\ last.raised = None
    /\ DOMAIN last.kw = {"a", "events", "start", "duration"}
    /\ last.kw["events"] = Obj
    /\ last.kw["start"] = Num(6)
    /\ last.kw["duration"] = Num(6)
    /\ Len(ctx[last.obj].events) = 1
    /\ last.emitted.data["start"] = [tag |-> "number", val |-> 0]
    /\ last.emitted.data["duration"] = [tag |-> "number", val |-> 0]
    /\ last.emitted.data["a"] = [tag |-> "number", val |-> 5]
    /\ last.emitted.data["events"].tag = "array"

====
